---- MODULE Spec2Model ----
(***************************************************************************)
(* Model of the dbsync synchronisation engine: the process entry point     *)
(* (src/dbsync/__main__.py, main) and the UpDown engine                    *)
(* (src/dbsync/updown.py: constructor, ignore list, path mapping, upload,  *)
(* and the watchdog callbacks on_created / on_modified).                   *)
(*                                                                         *)
(* Local paths and remote paths are sequences of components; an absolute   *)
(* path starts with the component "/".  File contents are modelled by      *)
(* their length in bytes: a chunk is the pair (position, length).          *)
(***************************************************************************)
EXTENDS Integers, Sequences, FiniteSets, TLC

----------------------------------------------------------------------------
(* Bounds of the model *)

\* files have at most MaxChunks * CHUNK_SIZE bytes
MaxChunks == 3
\* number of operations (events, direct upload calls) in one run
MaxEvents == 2

----------------------------------------------------------------------------
(* Program constants and small helpers *)

\* updown.py:36
CHUNK_SIZE == 4 * 1024 * 1024

MiB == 1024 * 1024

Min(a, b) == IF a < b THEN a ELSE b
Max(a, b) == IF a > b THEN a ELSE b

\* names bound at module level of updown.py (imports of lines 23-31 and the
\* module's own definitions); every other global name raises NameError
ModuleNames ==
    {"os", "posixpath", "logging", "time", "contextlib", "datetime",
     "Thread", "dropbox", "PatternMatchingEventHandler",
     "logger", "CHUNK_SIZE", "IGNORE_PATTERNS", "UpDown"}

NameDefined(n) == n \in ModuleNames

\* updown.py:38
IGNORE_PATTERNS == <<"*.swp", "*.goutputstream*">>

----------------------------------------------------------------------------
(* Strings as character sequences, for glob matching *)

\* the file names and glob patterns of the model, spelled out
Chars ==
    [s \in {"a", "a.swp", "", "a*", "?", "*", "*.swp", "*.goutputstream*"} |->
        CASE s = "a"      -> <<"a">>
          [] s = "a.swp"  -> <<"a", ".", "s", "w", "p">>
          [] s = ""       -> <<>>
          [] s = "a*"     -> <<"a", "*">>
          [] s = "?"      -> <<"?">>
          [] s = "*"      -> <<"*">>
          [] s = "*.swp"  -> <<"*", ".", "s", "w", "p">>
          [] s = "*.goutputstream*" ->
               <<"*", ".", "g", "o", "u", "t", "p", "u", "t",
                 "s", "t", "r", "e", "a", "m", "*">>]

\* fnmatch.translate: glob -> regular expression, token by token;
\* the result is anchored at the end (\Z)
translate(pat) ==
    [i \in 1..Len(Chars[pat]) |->
        IF Chars[pat][i] = "*" THEN [t |-> "any*", c |-> ""]
        ELSE IF Chars[pat][i] = "?" THEN [t |-> "any", c |-> ""]
        ELSE [t |-> "lit", c |-> Chars[pat][i]]]

\* does regex rx (tokens i..) match all of s (characters j..) ?
RECURSIVE RxMatchFrom(_, _, _, _)
RxMatchFrom(rx, i, s, j) ==
    IF i > Len(rx) THEN j > Len(s)
    ELSE IF rx[i].t = "any*"
         THEN \E k \in j..(Len(s) + 1) : RxMatchFrom(rx, i + 1, s, k)
    ELSE IF j > Len(s) THEN FALSE
    ELSE IF rx[i].t = "any" THEN RxMatchFrom(rx, i + 1, s, j + 1)
    ELSE rx[i].c = s[j] /\ RxMatchFrom(rx, i + 1, s, j + 1)

\* the regular expression r'$.' : matches no string
NoMatch == <<>>

\* re.match(excludes, name): excludes is the alternation of the translated
\* patterns (a sequence of regexes), or r'$.' when there is none
re_match(excludes, name) ==
    \E a \in 1..Len(excludes) : RxMatchFrom(excludes[a], 1, Chars[name], 1)

\* PatternMatchingEventHandler.dispatch: events whose path matches one of
\* ignore_patterns never reach on_created / on_modified
WatchdogIgnores(name) ==
    \E a \in 1..Len(IGNORE_PATTERNS) :
        RxMatchFrom(translate(IGNORE_PATTERNS[a]), 1, Chars[name], 1)

----------------------------------------------------------------------------
(* Paths *)

\* the root directory given to the process (--rootdir, after expanduser)
Root == <<"/", "r">>
\* the working directory of the process
Cwd == <<"/">>

IsAbs(p) == p # <<>> /\ p[1] = "/"

\* os.path.join(a, b): an absolute b discards a
os_path_join(a, b) == IF IsAbs(b) THEN b ELSE a \o b

\* os.path.abspath
abspath(p) == IF IsAbs(p) THEN p ELSE Cwd \o p

RECURSIVE CommonLen(_, _)
CommonLen(p, q) ==
    IF p = <<>> \/ q = <<>> \/ p[1] # q[1] THEN 0
    ELSE 1 + CommonLen(Tail(p), Tail(q))

\* os.path.relpath(path, start); <<".">> stands for "."
relpath(path, start) ==
    LET ap == abspath(path)
        as == abspath(start)
        i  == CommonLen(ap, as)
        r  == [k \in 1..(Len(as) - i) |-> ".."] \o SubSeq(ap, i + 1, Len(ap))
    IN  IF r = <<>> THEN <<".">> ELSE r

\* UpDown.getFolderAndFile (updown.py:187-192)
getFolderAndFile(folder, src_path) ==
    LET abs_path == SubSeq(src_path, 1, Len(src_path) - 1)
        rel      == relpath(abs_path, folder)
    IN  [subfolder |-> IF rel # <<".">> THEN rel ELSE <<>>,
         name      |-> src_path[Len(src_path)]]

normalizePathNoPrefix(db_folder, subfolder, name) ==
    subfolder \o (IF name = "" THEN <<>> ELSE <<name>>)

\* UpDown.normalizePath (updown.py:99-103): posixpath.join of the non-empty
\* parts db_folder, subfolder, name
normalizePath(db_folder, subfolder, name) ==
    db_folder \o subfolder \o (IF name = "" THEN <<>> ELSE <<name>>)

----------------------------------------------------------------------------
(* Wall clock: datetime.now() at construction *)

\* two instants on either side of a year boundary
Instants == {1, 2}
Stamp(t) == IF t = 1 THEN "2024-12-31_23-59-59" ELSE "2025-01-01_00-00-00"
Year(t)  == IF t = 1 THEN "2024" ELSE "2025"
Month(t) == IF t = 1 THEN "12" ELSE "01"

----------------------------------------------------------------------------
(* Inputs *)

\* sizes of local files: around every multiple of CHUNK_SIZE
FileSizes ==
    {k * CHUNK_SIZE + d : k \in 0..(MaxChunks - 1), d \in {0, 1, MiB}}
        \cup {MaxChunks * CHUNK_SIZE}

\* what the file system holds at a path when upload looks at it
FileStates ==
    {[kind |-> "missing", readable |-> FALSE, size |-> 0],
     [kind |-> "dir", readable |-> TRUE, size |-> 0],
     [kind |-> "file", readable |-> FALSE, size |-> 1]}
        \cup {[kind |-> "file", readable |-> TRUE, size |-> s] : s \in FileSizes}

Names == {"a", "a.swp"}
Subfolders == {<<>>, <<"s">>}

\* the content of <rootdir>/.dropboxignore: one glob pattern per line
IgnoreFiles ==
    {[exists |-> FALSE, lines |-> <<>>],
     [exists |-> TRUE, lines |-> <<>>],
     [exists |-> TRUE, lines |-> <<"a*">>],
     [exists |-> TRUE, lines |-> <<"?", "*.swp">>]}

\* a watchdog event
Events ==
    [type : {"created", "modified"}, name : Names, sub : Subfolders,
     is_directory : BOOLEAN]

src_path(e) == Root \o e.sub \o <<e.name>>

\* a remote call may be issued only MaxCalls times within one upload
MaxCalls == MaxChunks + 2

----------------------------------------------------------------------------
(* State *)

VARIABLES
    entry,       \* "main": python -m dbsync; "lib": a program embedding UpDown
    args,        \* parsed command line of main
    rootKind,    \* what --rootdir is on the file system
    ignoreFile,  \* <rootdir>/.dropboxignore
    mainPc,      \* position of main()
    exitCode,    \* exit status of the process, -1 while it runs
    crash,       \* exception that escaped to the top level
    updown,      \* the UpDown object
    thread,      \* the Thread part of UpDown
    observers,   \* directories on which a watchdog Observer has scheduled updown
    pending,     \* event queued by the watcher for the handler
    lost,        \* file changes under rootdir that nobody was subscribed to
    dispatcher,  \* the thread that calls the handlers
    ev,          \* the callback being run
    up,          \* the frame of upload(); offsets lists the values given to
                 \* cursor.offset, stable tells that the file kept its size,
                 \* id numbers the calls of upload in the run
    file,        \* the local file upload() works on
    calls,       \* remote calls issued by the latest upload, in order
    session,     \* the upload session on the remote side
    remote,      \* the remote store: entries committed in this run
    nEvents      \* operations begun so far

vars == <<entry, args, rootKind, ignoreFile, mainPc, exitCode, crash, updown,
          thread, observers, pending, lost, dispatcher, ev, up, file, calls,
          session, remote, nEvents>>

NoUpDown ==
    [made |-> FALSE, folder |-> <<>>, dropboxignore |-> <<>>,
     excludes |-> NoMatch, timestamp |-> "", year |-> "", month |-> "",
     db_folder |-> <<>>]

NoEvent ==
    [state |-> "none", type |-> "", name |-> "", sub |-> <<>>,
     is_directory |-> FALSE, outcome |-> "", uploads |-> 0]

NoUpload ==
    [pc |-> "idle", caller |-> "", name |-> "", sub |-> <<>>,
     overwrite |-> FALSE, path |-> <<>>, mode |-> "", file_size |-> 0,
     opened |-> FALSE, pos |-> 0, cursor |-> -1, offsets |-> <<>>,
     res |-> "unset", exc |-> "none", stable |-> TRUE, id |-> 0]

NoFile == [kind |-> "missing", readable |-> FALSE, size |-> 0]
NoSession == [open |-> FALSE, received |-> 0]

Init ==
    /\ entry \in {"main", "lib"}
    /\ args \in [creds : BOOLEAN, refreshToken : BOOLEAN,
                 folder : {<<>>, <<"bk">>, Root}]
    /\ entry = "lib" => args = [creds |-> TRUE, refreshToken |-> TRUE,
                                folder |-> Root]
    /\ entry = "main" => args.folder # Root
    /\ rootKind \in {"dir", "file", "missing"}
    /\ entry = "lib" => rootKind = "dir"
    /\ ignoreFile \in IgnoreFiles
    /\ rootKind # "dir" => ignoreFile = [exists |-> FALSE, lines |-> <<>>]
    /\ mainPc = IF entry = "main" THEN "check_token" ELSE "construct"
    /\ exitCode = -1
    /\ crash = "none"
    /\ updown = NoUpDown
    /\ thread = "new"
    /\ observers = {}
    /\ pending = <<>>
    /\ lost = 0
    /\ dispatcher = "running"
    /\ ev = NoEvent
    /\ up = NoUpload
    /\ file = NoFile
    /\ calls = <<>>
    /\ session = NoSession
    /\ remote = {}
    /\ nEvents = 0

----------------------------------------------------------------------------
(* UpDown.__init__ and loadDropboxIgnore *)

isfile(path) ==
    /\ rootKind = "dir"
    /\ path = Root \o <<".dropboxignore">>
    /\ ignoreFile.exists

\* UpDown.loadDropboxIgnore (updown.py:85-97)
loadDropboxIgnore(folder, dropboxignore) ==
    LET path == os_path_join(folder, dropboxignore)
        ignore_files == IF isfile(path) THEN ignoreFile.lines ELSE <<>>
    IN  IF ignore_files # <<>>
        THEN IF NameDefined("fnmatch")
             THEN [exc |-> "none",
                   excludes |-> [i \in 1..Len(ignore_files) |->
                                    translate(ignore_files[i])]]
             ELSE [exc |-> "NameError", excludes |-> NoMatch]
        ELSE [exc |-> "none", excludes |-> NoMatch]

\* UpDown.__init__ (updown.py:42-69); t1, t2, t3 are the three readings of
\* datetime.now()
UpDown__init__(folder, dropboxignore, t1, t2, t3) ==
    [made |-> TRUE, folder |-> folder, dropboxignore |-> dropboxignore,
     excludes |-> loadDropboxIgnore(folder, dropboxignore).excludes,
     timestamp |-> Stamp(t1), year |-> Year(t2), month |-> Month(t3),
     db_folder |-> <<"/", Year(t2), Month(t3), Stamp(t1)>>]

\* the constructor as a step of its caller: the interactive authorisation
\* (get_refresh_token, updown.py:71-83) exits with 1 when the code is refused
Construct(folder, dropboxignore, next) ==
    \E authOk \in BOOLEAN, t1, t2, t3 \in Instants :
        /\ t1 <= t2 /\ t2 <= t3
        /\ args.refreshToken => authOk
        /\ IF ~authOk
           THEN /\ mainPc' = "exit" /\ exitCode' = 1 /\ crash' = "SystemExit"
                /\ UNCHANGED updown
           ELSE IF loadDropboxIgnore(folder, dropboxignore).exc # "none"
           THEN /\ mainPc' = "exit" /\ exitCode' = 1
                /\ crash' = loadDropboxIgnore(folder, dropboxignore).exc
                /\ UNCHANGED updown
           ELSE /\ mainPc' = next
                /\ updown' = UpDown__init__(folder, dropboxignore, t1, t2, t3)
                /\ UNCHANGED <<exitCode, crash>>

----------------------------------------------------------------------------
(* main() of __main__.py *)

\* __main__.py:85-88
MainCheckToken ==
    /\ mainPc = "check_token"
    /\ IF ~args.creds
       THEN mainPc' = "exit" /\ exitCode' = 2
       ELSE mainPc' = "check_folders" /\ UNCHANGED exitCode
    /\ UNCHANGED <<entry, args, rootKind, ignoreFile, crash, updown, thread,
                   observers, pending, lost, dispatcher, ev, up, file, calls,
                   session, remote, nEvents>>

MainCheckFoldersExistsOnly ==
    /\ mainPc = "check_folders"
    /\ IF rootKind = "missing"
       THEN mainPc' = "exit" /\ exitCode' = 1
       ELSE mainPc' = "construct" /\ UNCHANGED exitCode
    /\ UNCHANGED <<entry, args, rootKind, ignoreFile, crash, updown, thread,
                   observers, pending, lost, dispatcher, ev, up, file, calls,
                   session, remote, nEvents>>

\* __main__.py:90-98
MainCheckFolders ==
    /\ mainPc = "check_folders"
    /\ IF rootKind = "missing"
       THEN mainPc' = "exit" /\ exitCode' = 1
       ELSE IF rootKind # "dir"
       THEN mainPc' = "exit" /\ exitCode' = 1
       ELSE mainPc' = "construct" /\ UNCHANGED exitCode
    /\ UNCHANGED <<entry, args, rootKind, ignoreFile, crash, updown, thread,
                   observers, pending, lost, dispatcher, ev, up, file, calls,
                   session, remote, nEvents>>

\* __main__.py:107-112: UpDown(appKey, appSecret, refreshToken, folder, rootdir, ...)
\* binds the 4th parameter, folder, to args.folder and the 5th, dropboxignore,
\* to rootdir
MainConstruct ==
    /\ entry = "main"
    /\ mainPc = "construct"
    /\ Construct(args.folder, Root, "start")
    /\ UNCHANGED <<entry, args, rootKind, ignoreFile, thread, observers,
                   pending, lost, dispatcher, ev, up, file, calls, session,
                   remote, nEvents>>

\* __main__.py:114-116: updown.start() is Thread.start()
MainStart ==
    /\ mainPc = "start"
    /\ thread' = "started"
    /\ mainPc' = "loop"
    /\ UNCHANGED <<entry, args, rootKind, ignoreFile, exitCode, crash, updown,
                   observers, pending, lost, dispatcher, ev, up, file, calls,
                   session, remote, nEvents>>

\* Thread.run of UpDown: the class defines no run() and gives no target, so
\* the thread returns at once
ThreadRun ==
    /\ thread = "started"
    /\ thread' = "finished"
    /\ UNCHANGED <<entry, args, rootKind, ignoreFile, mainPc, exitCode, crash,
                   updown, observers, pending, lost, dispatcher, ev, up, file,
                   calls, session, remote, nEvents>>

\* __main__.py:118-122: the sleep loop ends on KeyboardInterrupt
MainInterrupt ==
    /\ mainPc = "loop"
    /\ mainPc' = "stop"
    /\ UNCHANGED <<entry, args, rootKind, ignoreFile, exitCode, crash, updown,
                   thread, observers, pending, lost, dispatcher, ev, up, file,
                   calls, session, remote, nEvents>>

\* __main__.py:124: updown.stop(); neither UpDown nor its bases define stop
MainStop ==
    /\ mainPc = "stop"
    /\ mainPc' = "exit"
    /\ exitCode' = 1
    /\ crash' = "AttributeError"
    /\ UNCHANGED <<entry, args, rootKind, ignoreFile, updown, thread,
                   observers, pending, lost, dispatcher, ev, up, file, calls,
                   session, remote, nEvents>>

\* a program that embeds the engine: UpDown(key, secret, token, rootdir) with
\* the default dropboxignore, scheduled on a watchdog Observer for rootdir
LibConstruct ==
    /\ entry = "lib"
    /\ mainPc = "construct"
    /\ Construct(Root, <<".dropboxignore">>, "serving")
    /\ observers' = IF mainPc' = "serving" THEN {Root} ELSE observers
    /\ UNCHANGED <<entry, args, rootKind, ignoreFile, thread, pending, lost,
                   dispatcher, ev, up, file, calls, session, remote, nEvents>>

----------------------------------------------------------------------------
(* The remote store (dropbox client, an external collaborator) *)

Exists(path) == \E r \in remote : r.path = path

\* the store after a write of a file at path in the given mode: overwrite
\* replaces the entry, add leaves an existing entry alone
Written(path, mode) ==
    IF mode = "overwrite"
    THEN {r \in remote : r.path # path}
            \cup {[path |-> path, kind |-> "file", by |-> up.id]}
    ELSE IF Exists(path) THEN remote
    ELSE remote \cup {[path |-> path, kind |-> "file", by |-> up.id]}

\* one entry of the log of remote calls
Call(op, len, offset, mode, path, ok) ==
    [op |-> op, len |-> len, offset |-> offset, mode |-> mode, path |-> path,
     ok |-> ok]

----------------------------------------------------------------------------
(* UpDown.upload (updown.py:105-162), one action per remote call *)

WriteModeAlwaysOverwrite(overwrite) == "overwrite"

\* dropbox.files.WriteMode chosen at updown.py:109-111
WriteMode(overwrite) == IF overwrite THEN "overwrite" ELSE "add"

\* dropbox.files.CommitInfo(path=path) at updown.py:145: the mode is not
\* passed, the commit carries the default mode, add
CommitInfo(path, mode) == [path |-> path, mode |-> "add"]

IsSmallStrict(file_size) == file_size < CHUNK_SIZE

\* updown.py:125
IsSmall(file_size) == file_size <= CHUNK_SIZE

\* updown.py:147
LoopCond(pos, file_size) == pos < file_size

IsLastChunkStrict(file_size, pos) == (file_size - pos) < CHUNK_SIZE

\* updown.py:148
IsLastChunk(file_size, pos) == (file_size - pos) <= CHUNK_SIZE

ReadLenNoEof(n, pos, size) == n

\* f.read(n) at position pos of a file that holds size bytes: its length
ReadLen(n, pos, size) == Min(n, Max(size - pos, 0))

\* f.read() at position pos: the rest of the file
ReadAll(pos, size) == Max(size - pos, 0)

CursorOffsetStale(tell) == Min(tell, CHUNK_SIZE)

\* updown.py:141-144 and 161: cursor.offset = f.tell()
CursorOffset(tell) == tell

\* upload() entered by caller with these arguments (updown.py:105)
UploadFrame(caller, sub, name, overwrite, id) ==
    [pc |-> "begin", caller |-> caller, name |-> name, sub |-> sub,
     overwrite |-> overwrite, path |-> <<>>, mode |-> "", file_size |-> 0,
     opened |-> FALSE, pos |-> 0, cursor |-> -1, offsets |-> <<>>,
     res |-> "unset", exc |-> "none", stable |-> TRUE, id |-> id]

FromHandler == up.caller \in {"on_created", "on_modified"}

LeaveRetry(res, exc) ==
    IF res = "None"
    THEN up' = up /\ UNCHANGED <<ev, dispatcher>>
    ELSE /\ up' = [up EXCEPT !.pc = "done", !.res = res, !.exc = exc]
         /\ IF FromHandler
            THEN /\ ev' = [ev EXCEPT !.state = "done",
                                     !.outcome = IF exc = "none" THEN "returned"
                                                 ELSE exc]
                 /\ dispatcher' = IF exc = "none" THEN dispatcher ELSE "dead"
            ELSE UNCHANGED <<ev, dispatcher>>

\* upload() returns res or raises exc; control goes back to its caller: a
\* handler returns what upload returned and lets an exception through to the
\* dispatching thread, which dies of it
Leave(res, exc) ==
    /\ up' = [up EXCEPT !.pc = "done", !.res = res, !.exc = exc]
    /\ IF FromHandler
       THEN /\ ev' = [ev EXCEPT !.state = "done",
                                !.outcome = IF exc = "none" THEN "returned"
                                            ELSE exc]
            /\ dispatcher' = IF exc = "none" THEN dispatcher ELSE "dead"
       ELSE UNCHANGED <<ev, dispatcher>>

\* updown.py:107-114: path, mode, getmtime, isdir
UploadStat ==
    /\ up.pc = "begin"
    /\ IF file.kind = "missing"
       THEN Leave("unset", "OSError")
       ELSE /\ up' = [up EXCEPT
                        !.path = normalizePath(updown.db_folder, up.sub, up.name),
                        !.mode = WriteMode(up.overwrite),
                        !.pc = IF file.kind = "dir" THEN "folder" ELSE "open"]
            /\ UNCHANGED <<ev, dispatcher>>
    /\ UNCHANGED <<entry, args, rootKind, ignoreFile, mainPc, exitCode, crash,
                   updown, thread, observers, pending, lost, file, calls,
                   session, remote, nEvents>>

\* updown.py:115-121
CreateFolder ==
    /\ up.pc = "folder"
    /\ \E ok \in BOOLEAN :
        /\ ok => ~Exists(up.path)
        /\ calls' = Append(calls, Call("files_create_folder_v2", 0, -1, "",
                                       up.path, ok))
        /\ remote' = IF ok
                     THEN remote \cup {[path |-> up.path, kind |-> "folder",
                                        by |-> up.id]}
                     ELSE remote
        /\ Leave(IF ok THEN "metadata" ELSE "None", "none")
    /\ UNCHANGED <<entry, args, rootKind, ignoreFile, mainPc, exitCode, crash,
                   updown, thread, observers, pending, lost, file, session,
                   nEvents>>

\* updown.py:123-125: open(fullname, 'rb'), getsize
OpenFile ==
    /\ up.pc = "open"
    /\ IF file.kind # "file" \/ ~file.readable
       THEN Leave("unset", "OSError")
       ELSE /\ up' = [up EXCEPT !.file_size = file.size, !.pos = 0,
                                !.opened = TRUE,
                                !.pc = IF IsSmall(file.size) THEN "small"
                                       ELSE "start"]
            /\ UNCHANGED <<ev, dispatcher>>
    /\ UNCHANGED <<entry, args, rootKind, ignoreFile, mainPc, exitCode, crash,
                   updown, thread, observers, pending, lost, file, calls,
                   session, remote, nEvents>>

\* updown.py:126-137: the single-shot upload
UploadSmall ==
    /\ up.pc = "small"
    /\ \E ok \in BOOLEAN :
        /\ calls' = Append(calls, Call("files_upload", ReadAll(up.pos, file.size),
                                       -1, up.mode, up.path, ok))
        /\ remote' = IF ok THEN Written(up.path, up.mode) ELSE remote
        /\ Leave(IF ok THEN "metadata" ELSE "None", "none")
    /\ UNCHANGED <<entry, args, rootKind, ignoreFile, mainPc, exitCode, crash,
                   updown, thread, observers, pending, lost, file, session,
                   nEvents>>

\* updown.py:140-145: files_upload_session_start is outside every try
SessionStart ==
    /\ up.pc = "start"
    /\ LET n == ReadLen(CHUNK_SIZE, up.pos, file.size) IN
       \E ok \in BOOLEAN :
        /\ calls' = Append(calls, Call("files_upload_session_start", n, -1, "",
                                       <<>>, ok))
        /\ IF ok
           THEN /\ session' = [open |-> TRUE, received |-> n]
                /\ up' = [up EXCEPT !.pos = up.pos + n,
                                    !.cursor = CursorOffset(up.pos + n),
                                    !.offsets = <<CursorOffset(up.pos + n)>>,
                                    !.pc = "loop"]
                /\ UNCHANGED <<ev, dispatcher>>
           ELSE /\ UNCHANGED session
                /\ Leave("unset", "ApiError")
    /\ UNCHANGED <<entry, args, rootKind, ignoreFile, mainPc, exitCode, crash,
                   updown, thread, observers, pending, lost, file, remote,
                   nEvents>>

\* updown.py:147-156: the last chunk goes with files_upload_session_finish;
\* the remote side refuses a closed session and a wrong offset
SessionFinish ==
    /\ up.pc = "loop"
    /\ LoopCond(up.pos, up.file_size)
    /\ IsLastChunk(up.file_size, up.pos)
    /\ Len(calls) < MaxCalls
    /\ LET n == ReadLen(CHUNK_SIZE, up.pos, file.size)
           commit == CommitInfo(up.path, up.mode)
       IN
       \E ok \in BOOLEAN :
        /\ ok => session.open /\ session.received = up.cursor
        /\ calls' = Append(calls, Call("files_upload_session_finish", n,
                                       up.cursor, commit.mode, commit.path, ok))
        /\ IF ok
           THEN /\ session' = [open |-> FALSE, received |-> session.received + n]
                /\ remote' = Written(commit.path, commit.mode)
                /\ up' = [up EXCEPT !.pos = up.pos + n, !.res = "metadata"]
                /\ UNCHANGED <<ev, dispatcher>>
           ELSE /\ UNCHANGED <<session, remote>>
                /\ Leave("None", "none")
    /\ UNCHANGED <<entry, args, rootKind, ignoreFile, mainPc, exitCode, crash,
                   updown, thread, observers, pending, lost, file, nEvents>>

\* updown.py:157-161: files_upload_session_append is outside every try
SessionAppend ==
    /\ up.pc = "loop"
    /\ LoopCond(up.pos, up.file_size)
    /\ ~IsLastChunk(up.file_size, up.pos)
    /\ Len(calls) < MaxCalls
    /\ LET n == ReadLen(CHUNK_SIZE, up.pos, file.size) IN
       \E ok \in BOOLEAN :
        /\ ok => session.open /\ session.received = up.cursor
        /\ calls' = Append(calls, Call("files_upload_session_append", n,
                                       up.cursor, "", <<>>, ok))
        /\ IF ok
           THEN /\ session' = [session EXCEPT !.received = session.received + n]
                /\ up' = [up EXCEPT !.pos = up.pos + n,
                                    !.cursor = CursorOffset(up.pos + n),
                                    !.offsets = Append(up.offsets,
                                                       CursorOffset(up.pos + n))]
                /\ UNCHANGED <<ev, dispatcher>>
           ELSE /\ UNCHANGED session
                /\ Leave("unset", "ApiError")
    /\ UNCHANGED <<entry, args, rootKind, ignoreFile, mainPc, exitCode, crash,
                   updown, thread, observers, pending, lost, file, remote,
                   nEvents>>

\* updown.py:147 and 162: the loop ends, return res; res is unbound when no
\* finish call was made
UploadReturn ==
    /\ up.pc = "loop"
    /\ ~LoopCond(up.pos, up.file_size)
    /\ IF up.res = "unset"
       THEN Leave("unset", "UnboundLocalError")
       ELSE Leave(up.res, "none")
    /\ UNCHANGED <<entry, args, rootKind, ignoreFile, mainPc, exitCode, crash,
                   updown, thread, observers, pending, lost, file, calls,
                   session, remote, nEvents>>

\* another process truncates the file to nothing or extends it to the largest
\* size while upload() has it open
FileResized ==
    /\ up.pc \in {"small", "start", "loop"}
    /\ up.stable
    /\ \E s \in {0, MaxChunks * CHUNK_SIZE} :
        /\ s # file.size
        /\ file' = [file EXCEPT !.size = s]
    /\ up' = [up EXCEPT !.stable = FALSE]
    /\ UNCHANGED <<entry, args, rootKind, ignoreFile, mainPc, exitCode, crash,
                   updown, thread, observers, pending, lost, dispatcher, ev,
                   calls, session, remote, nEvents>>

----------------------------------------------------------------------------
(* The watcher and the callbacks on_created / on_modified *)

QuietCallbackOnly == ev.state # "running" /\ pending = <<>>

Quiet == ev.state # "running" /\ up.pc \in {"idle", "done"} /\ pending = <<>>

\* a file or directory under rootdir is created or modified (and may be gone
\* or unreadable by the time the event is handled); the watcher queues an
\* event for the handlers scheduled on rootdir, if there are any; the frame
\* of the previous call of upload is gone
FsChange ==
    /\ updown.made
    /\ mainPc \in {"loop", "serving"}
    /\ Quiet
    /\ nEvents < MaxEvents
    /\ nEvents' = nEvents + 1
    /\ IF Root \in observers /\ dispatcher = "running"
       THEN /\ \E e \in Events :
                /\ pending' = <<e>>
                /\ file' \in {f \in FileStates :
                       e.is_directory <=> (f.kind \in {"dir", "missing"})}
            /\ UNCHANGED lost
       ELSE /\ lost' = lost + 1
            /\ UNCHANGED <<pending, file>>
    /\ up' = NoUpload
    /\ calls' = <<>>
    /\ session' = NoSession
    /\ UNCHANGED <<entry, args, rootKind, ignoreFile, mainPc, exitCode, crash,
                   updown, thread, observers, dispatcher, ev, remote>>

EventFrame(e, state, outcome, uploads) ==
    [state |-> state, type |-> e.type, name |-> e.name, sub |-> e.sub,
     is_directory |-> e.is_directory, outcome |-> outcome, uploads |-> uploads]

\* PatternMatchingEventHandler.dispatch with ignore_patterns=IGNORE_PATTERNS
\* (updown.py:45): the event is not handed to the callbacks
WatchdogDrop ==
    /\ pending # <<>>
    /\ WatchdogIgnores(pending[1].name)
    /\ pending' = <<>>
    /\ ev' = EventFrame(pending[1], "done", "not_dispatched", 0)
    /\ UNCHANGED <<entry, args, rootKind, ignoreFile, mainPc, exitCode, crash,
                   updown, thread, observers, lost, dispatcher, up, file,
                   calls, session, remote, nEvents>>

\* the body shared by the two callbacks (updown.py:175-178, 182-185):
\* getFolderAndFile, the test of the ignore list, the call of upload
Callback(e, caller, overwrite) ==
    LET sf == getFolderAndFile(updown.folder, src_path(e)) IN
    IF ~NameDefined("re")
    THEN /\ ev' = EventFrame(e, "done", "NameError", 0)
         /\ dispatcher' = "dead"
         /\ UNCHANGED <<up, calls, session>>
    ELSE IF ~re_match(updown.excludes, sf.name)
    THEN /\ ev' = EventFrame(e, "running", "", 1)
         /\ up' = UploadFrame(caller, sf.subfolder, sf.name, overwrite, nEvents)
         /\ UNCHANGED <<calls, session, dispatcher>>
    ELSE /\ ev' = EventFrame(e, "done", "ignored", 0)
         /\ UNCHANGED <<up, calls, session, dispatcher>>

\* UpDown.on_created (updown.py:174-178)
on_created ==
    /\ pending # <<>>
    /\ pending[1].type = "created"
    /\ ~WatchdogIgnores(pending[1].name)
    /\ pending' = <<>>
    /\ Callback(pending[1], "on_created", FALSE)
    /\ UNCHANGED <<entry, args, rootKind, ignoreFile, mainPc, exitCode, crash,
                   updown, thread, observers, lost, file, remote, nEvents>>

\* UpDown.on_modified (updown.py:180-185)
on_modified ==
    /\ pending # <<>>
    /\ pending[1].type = "modified"
    /\ ~WatchdogIgnores(pending[1].name)
    /\ pending' = <<>>
    /\ IF ~pending[1].is_directory
       THEN Callback(pending[1], "on_modified", TRUE)
       ELSE /\ ev' = EventFrame(pending[1], "done", "returned", 0)
            /\ UNCHANGED <<up, calls, session, dispatcher>>
    /\ UNCHANGED <<entry, args, rootKind, ignoreFile, mainPc, exitCode, crash,
                   updown, thread, observers, lost, file, remote, nEvents>>

\* the embedding program calls upload(fullname, subfolder, name, overwrite)
\* itself, as a scan of the tree does
LibUpload ==
    /\ entry = "lib"
    /\ mainPc = "serving"
    /\ Quiet
    /\ nEvents < MaxEvents
    /\ nEvents' = nEvents + 1
    /\ \E sub \in Subfolders, overwrite \in BOOLEAN :
        up' = UploadFrame("lib", sub, "a", overwrite, nEvents + 1)
    /\ file' \in FileStates
    /\ calls' = <<>>
    /\ session' = NoSession
    /\ ev' = NoEvent
    /\ UNCHANGED <<entry, args, rootKind, ignoreFile, mainPc, exitCode, crash,
                   updown, thread, observers, pending, lost, dispatcher,
                   remote>>

----------------------------------------------------------------------------

Next ==
    \/ MainCheckToken
    \/ MainCheckFolders
    \/ MainConstruct
    \/ MainStart
    \/ ThreadRun
    \/ MainInterrupt
    \/ MainStop
    \/ LibConstruct
    \/ FsChange
    \/ WatchdogDrop
    \/ on_created
    \/ on_modified
    \/ LibUpload
    \/ UploadStat
    \/ CreateFolder
    \/ OpenFile
    \/ UploadSmall
    \/ SessionStart
    \/ SessionFinish
    \/ SessionAppend
    \/ UploadReturn
    \/ FileResized

Spec == Init /\ [][Next]_vars

----------------------------------------------------------------------------
(* Properties *)

SessionOps ==
    {"files_upload_session_start", "files_upload_session_append",
     "files_upload_session_finish"}

AllOk == \A i \in 1..Len(calls) : calls[i].ok
SomeFailed == \E i \in 1..Len(calls) : ~calls[i].ok

\* upload() is over, every remote call succeeded and the file kept its size
CleanUpload == up.pc = "done" /\ up.stable /\ AllOk

\* C1: whichever remote call of upload fails with an API error, upload
\* returns None and raises nothing to its caller
C1_ApiErrorReturnsNone ==
    (up.pc = "done" /\ SomeFailed) => (up.exc = "none" /\ up.res = "None")

\* C2 as stated: a file larger than CHUNK_SIZE is sent as one start, N appends
\* and one finish with N * CHUNK_SIZE <= size < (N + 1) * CHUNK_SIZE, the
\* finish carrying size - N * CHUNK_SIZE bytes
C2_AppendsAsStated ==
    (CleanUpload /\ up.file_size > CHUNK_SIZE) =>
        LET N == up.file_size \div CHUNK_SIZE IN
        /\ up.exc = "none"
        /\ Len(calls) = N + 2
        /\ calls[1].op = "files_upload_session_start"
        /\ \A i \in 2..(N + 1) : calls[i].op = "files_upload_session_append"
        /\ calls[N + 2].op = "files_upload_session_finish"
        /\ calls[N + 2].len = up.file_size - N * CHUNK_SIZE

\* C2 amended: a file larger than CHUNK_SIZE is sent as one start, then A
\* appends, then one finish, where (A + 1) * CHUNK_SIZE < size <=
\* (A + 2) * CHUNK_SIZE; start and every append carry CHUNK_SIZE bytes and
\* the finish carries size - (A + 1) * CHUNK_SIZE bytes
C2_ChunkedCalls ==
    (CleanUpload /\ up.file_size > CHUNK_SIZE) =>
        LET A == ((up.file_size - 1) \div CHUNK_SIZE) - 1 IN
        /\ up.exc = "none"
        /\ Len(calls) = A + 2
        /\ calls[1].op = "files_upload_session_start"
        /\ calls[1].len = CHUNK_SIZE
        /\ \A i \in 2..(A + 1) :
               /\ calls[i].op = "files_upload_session_append"
               /\ calls[i].len = CHUNK_SIZE
        /\ calls[A + 2].op = "files_upload_session_finish"
        /\ calls[A + 2].len = up.file_size - (A + 1) * CHUNK_SIZE

\* a file of exactly three chunks has gone up: start, one append, finish
C2_Witness ==
    /\ CleanUpload
    /\ up.exc = "none"
    /\ up.file_size = 3 * CHUNK_SIZE
    /\ Len(calls) = 3
    /\ calls[2].op = "files_upload_session_append"
    /\ calls[3].len = CHUNK_SIZE

\* C3: a regular file of at most CHUNK_SIZE bytes (0 and CHUNK_SIZE
\* included) goes up in exactly one files_upload call that carries the whole
\* content, and no session call is made for it
C3_SmallSingleShot ==
    /\ \A i \in 1..Len(calls) :
           calls[i].op \in SessionOps => up.file_size > CHUNK_SIZE
    /\ (/\ up.pc = "done"
        /\ up.opened
        /\ up.file_size <= CHUNK_SIZE) =>
            /\ Len(calls) = 1
            /\ calls[1].op = "files_upload"
            /\ up.stable => calls[1].len = up.file_size

\* a file of exactly CHUNK_SIZE bytes has gone up in one files_upload call
C3_Witness ==
    /\ CleanUpload
    /\ up.opened
    /\ up.file_size = CHUNK_SIZE
    /\ Len(calls) = 1
    /\ calls[1].op = "files_upload"
    /\ calls[1].len = CHUNK_SIZE

NineMiBCalls ==
    /\ Len(calls) = 3
    /\ calls[1].op = "files_upload_session_start"
    /\ calls[1].len = 4194304
    /\ calls[2].op = "files_upload_session_append"
    /\ calls[2].len = 4194304
    /\ calls[3].op = "files_upload_session_finish"
    /\ calls[3].len = 1048576

\* C4 as stated: a 9 MiB file goes up as start (4 MiB), append (4 MiB),
\* finish (1 MiB), and cursor.offset takes the values 0, 4194304, 8388608,
\* 9437184
C4_CursorAsStated ==
    (CleanUpload /\ up.file_size = 9 * MiB) =>
        /\ NineMiBCalls
        /\ up.offsets = <<0, 4194304, 8388608, 9437184>>

\* C4 amended: a 9 MiB file goes up as start (4 MiB), append (4 MiB), finish
\* (1 MiB); cursor.offset takes the values 4194304, then 8388608, which are
\* the offsets passed to append and to finish, and the read position of the
\* file ends at 9437184
C4_NineMiB ==
    (CleanUpload /\ up.file_size = 9 * MiB) =>
        /\ NineMiBCalls
        /\ up.offsets = <<4194304, 8388608>>
        /\ calls[2].offset = 4194304
        /\ calls[3].offset = 8388608
        /\ up.pos = 9437184

\* the 9 MiB file has gone up
C4_Witness ==
    /\ CleanUpload
    /\ up.exc = "none"
    /\ up.res = "metadata"
    /\ up.file_size = 9 * MiB
    /\ calls[3].op = "files_upload_session_finish"

\* C5: an upload asked to overwrite (as on_modified asks) commits the file in
\* overwrite mode and the destination then holds what this upload wrote,
\* whatever the size of the file; an upload asked not to overwrite commits in
\* add mode
C5_CommitMode ==
    (CleanUpload /\ up.exc = "none" /\ up.opened) =>
        /\ calls[Len(calls)].mode = WriteMode(up.overwrite)
        /\ up.overwrite =>
               [path |-> up.path, kind |-> "file", by |-> up.id] \in remote

\* the event in ev went through the watchdog filter to a callback
Dispatched == ev.state # "none" /\ ev.outcome # "not_dispatched"

\* C6: a local file system error while one file is processed is caught by the
\* callback that called upload; the callback returns normally and later
\* events are still processed
C6_FsErrorSkipped ==
    (/\ Dispatched
     /\ ev.state = "done"
     /\ file.kind = "missing" \/ (file.kind = "file" /\ ~file.readable)) =>
        /\ ev.outcome \in {"returned", "ignored"}
        /\ dispatcher = "running"

\* C7: a creation event for a name that is not ignored calls upload once
\* with overwrite=false, a modification event for such a regular file calls
\* upload once with overwrite=true, a modification event for a directory
\* calls upload zero times
C7_CallbacksCallUpload ==
    (Dispatched /\ ~re_match(updown.excludes, ev.name)) =>
        /\ ev.type = "created" =>
               ev.uploads = 1 /\ up.caller = "on_created" /\ ~up.overwrite
        /\ (ev.type = "modified" /\ ~ev.is_directory) =>
               ev.uploads = 1 /\ up.caller = "on_modified" /\ up.overwrite
        /\ (ev.type = "modified" /\ ev.is_directory) => ev.uploads = 0

\* name matches one of the glob patterns listed in the ignore file
ListedInIgnoreFile(name) ==
    /\ ignoreFile.exists
    /\ \E i \in 1..Len(ignoreFile.lines) :
           RxMatchFrom(translate(ignoreFile.lines[i]), 1, Chars[name], 1)

\* C8: the ignore list is loaded whatever the ignore file holds; the filter
\* says ignore exactly for the names that match a pattern of the file; an
\* ignored event makes no upload and an event that is not ignored is not
\* dropped by the filter
C8_IgnoreFilter ==
    /\ crash # "NameError"
    /\ (entry = "lib" /\ updown.made) =>
           \A n \in Names : re_match(updown.excludes, n) <=> ListedInIgnoreFile(n)
    /\ (Dispatched /\ ~(ev.type = "modified" /\ ev.is_directory)) =>
           (ev.uploads = 0 <=> ListedInIgnoreFile(ev.name))

\* C9: started through main with root directory R, the engine's local root
\* is R, the ignore rules come from R/.dropboxignore, and names matching a
\* pattern of that file are ignored
C9_MainRootAndIgnoreFile ==
    (entry = "main" /\ updown.made) =>
        /\ updown.folder = Root
        /\ os_path_join(updown.folder, updown.dropboxignore)
               = Root \o <<".dropboxignore">>
        /\ \A n \in Names : ListedInIgnoreFile(n) => re_match(updown.excludes, n)

\* C10: after start() the engine is subscribed to the events of the root
\* directory, the background scheduler keeps running until shutdown is
\* requested, and no change under the root directory goes without an upload
\* attempt
C10_StartSubscribes ==
    entry = "main" =>
        /\ mainPc = "loop" => (Root \in observers /\ thread = "started")
        /\ lost = 0

\* C11: stop() called after start() completes without error: main ends
\* normally, with no exception at the top level
C11_StopCompletes ==
    (entry = "main" /\ mainPc = "exit" /\ thread # "new") =>
        (crash = "none" /\ exitCode = 0)

HasPrefix(path, prefix) ==
    Len(path) >= Len(prefix) /\ SubSeq(path, 1, Len(prefix)) = prefix

\* the session prefix /year/month/timestamp and the paths built on it
PrefixOnEveryPath ==
    updown.made =>
        /\ updown.db_folder = <<"/", updown.year, updown.month, updown.timestamp>>
        /\ \A i \in 1..Len(calls) :
               calls[i].path # <<>> => HasPrefix(calls[i].path, updown.db_folder)
        /\ \A r \in remote : HasPrefix(r.path, updown.db_folder)
        /\ up.path # <<>> =>
               up.path = normalizePath(updown.db_folder, up.sub, up.name)

\* C12: the session prefix is set at construction and no operation changes
\* it; every path handed to a remote call, in this upload and in the earlier
\* ones of the run, starts with that prefix and is what normalizePath gives
\* for the (subfolder, name) of the upload
C12_PrefixFrozen ==
    /\ [][updown.made => updown' = updown]_vars
    /\ []PrefixOnEveryPath

\* two uploads of the run have written under the one prefix
C12_Witness ==
    /\ updown.made
    /\ Cardinality(remote) = 2
    /\ \E r \in remote : r.by = 2

\* C13: while an upload with overwrite = false runs, no entry of the remote
\* store is replaced or removed, so a second write to a destination leaves
\* the first one's content in place; and a destination never holds two
\* written entries
C13_SecondAddKeepsFirst ==
    /\ [][~up.overwrite => remote \subseteq remote']_vars
    /\ [](\A r1, r2 \in remote : r1.path = r2.path => r1 = r2)

\* a second upload with overwrite = false has made its call for a
\* destination the first upload wrote, and the entry is still the first's
C13_Witness ==
    /\ up.pc = "done" /\ up.id = 2 /\ ~up.overwrite
    /\ calls # <<>> /\ AllOk
    /\ [path |-> up.path, kind |-> "file", by |-> 1] \in remote

OnceOps == {"files_create_folder_v2", "files_upload",
            "files_upload_session_start"}

\* C14: an event starts at most one upload, an upload belongs to one
\* operation, and inside an upload a failed remote call is the last call:
\* nothing is issued again
C14_NoRetry ==
    /\ ev.uploads <= 1
    /\ up.id <= nEvents
    /\ \A i \in 1..(Len(calls) - 1) : calls[i].ok
    /\ \A o \in OnceOps :
           Cardinality({i \in 1..Len(calls) : calls[i].op = o}) <= 1

\* the finish call of a chunked upload failed and the upload ended there
C14_Witness ==
    /\ up.pc = "done" /\ up.res = "None"
    /\ Len(calls) = 2
    /\ calls[1].ok /\ ~calls[2].ok
    /\ calls[2].op = "files_upload_session_finish"

ConfigError == ~args.creds \/ rootKind # "dir"

\* C15: when main is given no app key or secret it exits with 2, and when
\* the credentials are there but the root is missing or is not a directory
\* it exits with 1; in both cases main never gets past its checks: no
\* engine is constructed, no thread started, no remote call made
C15_ConfigErrorsFatal ==
    (entry = "main" /\ ConfigError) =>
        /\ mainPc \in {"check_token", "check_folders", "exit"}
        /\ mainPc = "exit" => exitCode = (IF ~args.creds THEN 2 ELSE 1)
        /\ crash = "none"
        /\ ~updown.made /\ thread = "new" /\ observers = {}
        /\ up = NoUpload /\ calls = <<>> /\ remote = {}

\* main has exited with 1 on a root that exists but is a file
C15_Witness ==
    /\ entry = "main" /\ args.creds /\ rootKind = "file"
    /\ mainPc = "exit" /\ exitCode = 1

InProgress == up.pc \notin {"idle", "done"}

C17_SchedulerKeepsCycling ==
    thread = "finished" => mainPc \in {"stop", "exit"}

\* the YYYY and MM fields of a timestamp string
StampYear(s) == Year(CHOOSE t \in Instants : Stamp(t) = s)
StampMonth(s) == Month(CHOOSE t \in Instants : Stamp(t) = s)

\* C18: the year and month segments of the session prefix are the YYYY and
\* MM fields of its timestamp segment
C18_YearMonthOfTimestamp ==
    updown.made =>
        /\ updown.year = StampYear(updown.timestamp)
        /\ updown.month = StampMonth(updown.timestamp)

RECURSIVE BytesBefore(_)
\* the bytes carried by the calls before call i of the current upload
BytesBefore(i) == IF i <= 1 THEN 0 ELSE BytesBefore(i - 1) + calls[i - 1].len

ChunkOps == {"files_upload_session_append", "files_upload_session_finish"}

\* C19: in the chunked upload of a file whose size does not change, call i
\* carries the bytes from BytesBefore(i) on: the offset passed to every
\* append and finish is the number of bytes sent by the earlier calls, a
\* chunk is never longer than CHUNK_SIZE, nothing follows the finish call,
\* and when the upload has returned a result the chunks add up to the size
C19_ChunksCoverFile ==
    (up.stable /\ up.opened /\ ~IsSmall(up.file_size)) =>
        /\ \A i \in 1..Len(calls) :
              /\ calls[i].op \in ChunkOps => calls[i].offset = BytesBefore(i)
              /\ calls[i].len <= CHUNK_SIZE
              /\ BytesBefore(i) + calls[i].len <= up.file_size
              /\ calls[i].op = "files_upload_session_finish" => i = Len(calls)
              /\ (i > 1) = (calls[i].op \in ChunkOps)
        /\ (up.pc = "done" /\ up.res = "metadata") =>
              BytesBefore(Len(calls) + 1) = up.file_size

\* a file of two chunks and one byte has gone up in three calls
C19_Witness ==
    /\ CleanUpload /\ up.res = "metadata"
    /\ up.file_size = 2 * CHUNK_SIZE + 1
    /\ Len(calls) = 3

FinishCalls ==
    {i \in 1..Len(calls) : calls[i].op = "files_upload_session_finish"}

\* C20: whatever happens to the size of the file while it is read, a
\* chunked upload makes the session-finish call at most once
C20_FinishAtMostOnce ==
    Cardinality(FinishCalls) <= 1

====
